---- MODULE Spec2Model ----
(***************************************************************************)
(* Model of the Yodish translator (src/main.py): Word construction, the    *)
(* clause splitter, the tag-sequence matcher, the move/replace rules, the  *)
(* five-rule pipeline and the serializer.                                  *)
(*                                                                         *)
(* A Python str is a sequence of one-character strings.  A Word object is  *)
(* a cell of the heap (a sequence of [text, tag] records); a list of Words *)
(* is a sequence of heap addresses, so that two lists can share a Word and *)
(* an in-place mutation of a Word is visible through both.                 *)
(* List indices are 0-based in the operators, as in the source.            *)
(* A local operator with_x(x), applied once to a call, stands for the      *)
(* assignment x = <call> followed by the statements that use x.            *)
(***************************************************************************)
EXTENDS Integers, Sequences, FiniteSets, TLC

VARIABLES pc, heap, sents, n, chunks, result, words, seq, dest, punc, ret, clause, fired

vars == <<pc, heap, sents, n, chunks, result, words, seq, dest, punc, ret, clause, fired>>

(***************************************************************************)
(* Bounds of the model.                                                    *)
(***************************************************************************)
MaxTextLen == 2
MaxWords == 3
MaxPat == 2
MaxSegs == 3
MaxToks == 4

(***************************************************************************)
(* Python values.                                                          *)
(***************************************************************************)
None == [none |-> TRUE, val |-> <<>>]

Some(v) == [none |-> FALSE, val |-> v]

IndexError == [raised |-> TRUE, val |-> <<>>]

Returned(v) == [raised |-> FALSE, val |-> v]

\* s[a:b] for 0 <= a, 0 <= b: the slice is clipped to the list.
Slice(s, a, b) ==
  LET hi == IF b < Len(s) THEN b ELSE Len(s)
  IN IF a >= hi THEN <<>> ELSE [j \in 1..(hi - a) |-> s[a + j]]

\* s[a:]
SliceFrom(s, a) == Slice(s, a, Len(s))

LowerCase ==
  <<"a","b","c","d","e","f","g","h","i","j","k","l","m",
    "n","o","p","q","r","s","t","u","v","w","x","y","z">>

UpperCase ==
  <<"A","B","C","D","E","F","G","H","I","J","K","L","M",
    "N","O","P","Q","R","S","T","U","V","W","X","Y","Z">>

\* c.upper() for one character
upper(c) ==
  IF \E i \in DOMAIN LowerCase : LowerCase[i] = c
    THEN UpperCase[CHOOSE i \in DOMAIN LowerCase : LowerCase[i] = c]
    ELSE c

\* s.lower()
lower(s) ==
  [j \in DOMAIN s |->
     IF \E i \in DOMAIN UpperCase : UpperCase[i] = s[j]
       THEN LowerCase[CHOOSE i \in DOMAIN UpperCase : UpperCase[i] = s[j]]
       ELSE s[j]]

(***************************************************************************)
(* capitalize: s[0] of the empty string raises IndexError.                 *)
(***************************************************************************)
capitalize(s) ==
  IF s = <<>> THEN IndexError
  ELSE Returned(<<upper(s[1])>> \o SliceFrom(s, 1))

contractions ==
  << [key |-> <<"'","l","l">>, value |-> <<"w","i","l","l">>],
     [key |-> <<"'","d">>,     value |-> <<"w","o","u","l","d">>],
     [key |-> <<"'","v","e">>, value |-> <<"h","a","v","e">>],
     [key |-> <<"'","r","e">>, value |-> <<"a","r","e">>],
     [key |-> <<"n","'","t">>, value |-> <<"n","o","t">>],
     [key |-> <<"'","s">>,     value |-> <<"i","s">>],
     [key |-> <<"'","m">>,     value |-> <<"a","m">> ] >>

punctuation == {<<",">>, <<".">>, <<";">>, <<"?">>, <<"!">>, <<":">>}

stop_punctuation == {<<".">>, <<"!">>, <<"?">>}

(***************************************************************************)
(* Word                                                                    *)
(***************************************************************************)
\* expand_contractions without the possessive exception
expand_contractions_no_pos(text, tag) ==
  IF \E i \in DOMAIN contractions : contractions[i].key = text
    THEN contractions[CHOOSE i \in DOMAIN contractions : contractions[i].key = text].value
    ELSE text

\* Word.expand_contractions: the text after the call
expand_contractions(text, tag) ==
  IF (\E i \in DOMAIN contractions : contractions[i].key = text) /\ tag # "POS"
    THEN contractions[CHOOSE i \in DOMAIN contractions : contractions[i].key = text].value
    ELSE text

\* Word.apply_capitalization: the text after the call, or IndexError
apply_capitalization(text, tag) ==
  IF text = <<"i">> \/ tag = "NNP" THEN capitalize(text) ELSE Returned(text)

\* Word.__init__: the constructed object, or IndexError
Word(text, tag) ==
  (LET with_c(c) == IF c.raised THEN IndexError
                  ELSE Returned([text |-> c.val, tag |-> tag])
   IN with_c(apply_capitalization(expand_contractions(lower(text), tag), tag)))

(***************************************************************************)
(* Tag-sequence matcher                                                    *)
(***************************************************************************)
nouns == {"NN", "NNS", "NNP"}

\* noun normalization that forgets the plural noun tag
noun_tag_no_plural(tag) == IF tag \in {"NN", "NNP"} THEN "NN" ELSE tag

\* 'NN' if tag in nouns else tag
noun_tag(tag) == IF tag \in nouns THEN "NN" ELSE tag

\* for i in range(len(tags)): if tags[i:i+len(seq)] == seq: return i
RECURSIVE first_match(_, _, _)
first_match(tags, sq, i) ==
  IF i >= Len(tags) THEN -1
  ELSE IF Slice(tags, i, i + Len(sq)) = sq THEN i
  ELSE first_match(tags, sq, i + 1)

index_tag_seq(h, ws, sq) ==
  IF Len(sq) > Len(ws) THEN -1
  ELSE LET nseq == [j \in DOMAIN sq |-> noun_tag(sq[j])]
           tags == [j \in DOMAIN ws |-> noun_tag(h[ws[j]].tag)]
       IN first_match(tags, nseq, 0)

(***************************************************************************)
(* move_tag_seq: pnc is 0 for Python's None, else the address of a Word.   *)
(* The result is None or a new list.                                       *)
(***************************************************************************)
\* move_tag_seq that leaves the moved run in place as well
move_tag_seq_keep_run(h, ws, sq, dst, pnc) ==
  (LET with_seq_start(seq_start) ==
    LET move_words == Slice(ws, seq_start, seq_start + Len(sq))
        rest == Slice(ws, 0, seq_start) \o SliceFrom(ws, seq_start + Len(sq))
        punc_list == IF pnc # 0 THEN <<pnc>> ELSE <<>>
    IN IF seq_start > -1
         THEN Some(IF dst = "start" THEN move_words \o ws \o punc_list
                   ELSE IF dst = "end" THEN ws \o punc_list \o move_words
                   ELSE ws)
         ELSE None
   IN with_seq_start(index_tag_seq(h, ws, sq)))

\* move_tag_seq with the punctuation put after the moved run for 'end'
move_tag_seq_punc_last(h, ws, sq, dst, pnc) ==
  (LET with_seq_start(seq_start) ==
    LET move_words == Slice(ws, seq_start, seq_start + Len(sq))
        rest == Slice(ws, 0, seq_start) \o SliceFrom(ws, seq_start + Len(sq))
        punc_list == IF pnc # 0 THEN <<pnc>> ELSE <<>>
    IN IF seq_start > -1
         THEN Some(IF dst = "start" THEN move_words \o rest \o punc_list
                   ELSE IF dst = "end" THEN rest \o move_words \o punc_list
                   ELSE ws)
         ELSE None
   IN with_seq_start(index_tag_seq(h, ws, sq)))

move_tag_seq(h, ws, sq, dst, pnc) ==
  (LET with_seq_start(seq_start) ==
    LET move_words == Slice(ws, seq_start, seq_start + Len(sq))
        rest == Slice(ws, 0, seq_start) \o SliceFrom(ws, seq_start + Len(sq))
        punc_list == IF pnc # 0 THEN <<pnc>> ELSE <<>>
    IN IF seq_start > -1
         THEN Some(IF dst = "start" THEN move_words \o rest \o punc_list
                   ELSE IF dst = "end" THEN rest \o punc_list \o move_words
                   ELSE ws)
         ELSE None
   IN with_seq_start(index_tag_seq(h, ws, sq)))

(***************************************************************************)
(* replace_tag_seq: the dict is keyed by the Words' own tags (not the      *)
(* noun-normalized ones); a later Word with the same tag overwrites.       *)
(***************************************************************************)
tag_to_word(h, run, x) ==
  LET at == {j \in DOMAIN run : h[run[j]].tag = x}
  IN IF at = {} THEN <<>>
     ELSE <<run[CHOOSE j \in at : \A k \in at : k <= j]>>

RECURSIVE lookup_all(_, _, _, _)
lookup_all(h, run, seq2, i) ==
  IF i > Len(seq2) THEN <<>>
  ELSE tag_to_word(h, run, seq2[i]) \o lookup_all(h, run, seq2, i + 1)

replace_tag_seq(h, ws, seq1, seq2) ==
  (LET with_seq_start(seq_start) ==
    LET pre == Slice(ws, 0, seq_start)
        post == SliceFrom(ws, seq_start + Len(seq1))
        run == Slice(ws, seq_start, seq_start + Len(seq1))
    IN IF seq_start > -1
         THEN Some(pre \o lookup_all(h, run, seq2, 1) \o post)
         ELSE None
   IN with_seq_start(index_tag_seq(h, ws, seq1)))

(***************************************************************************)
(* The rules.  Each yields [raised, ret, heap]: whether the call raised,   *)
(* what it returned (None or a list) and the heap after it.                *)
(***************************************************************************)
RuleResult(r, h) == [raised |-> FALSE, ret |-> r, heap |-> h]

RuleRaised(h) == [raised |-> TRUE, ret |-> None, heap |-> h]

\* Word(',', 'punct') is evaluated, then move_tag_seq is called with it
rule_prp_vbp(h, ws) ==
  (LET with_comma(comma) ==
    IF comma.raised THEN RuleRaised(h)
    ELSE RuleResult(move_tag_seq(Append(h, comma.val), ws, <<"PRP", "VBP">>,
                                 "end", Len(h) + 1),
                    Append(h, comma.val))
   IN with_comma(Word(<<",">>, "punct")))

rule_rb_jjr(h, ws) ==
  RuleResult(move_tag_seq(h, ws, <<"RB", "JJR">>, "start", 0), h)

rule_vb_prp_nn(h, ws) ==
  IF index_tag_seq(h, ws, <<"VB", "PRP$", "NNS", "RB">>) > -1
    THEN RuleResult(move_tag_seq(h, ws, <<"VB", "PRP$", "NNS">>, "end", 0), h)
    ELSE RuleResult(None, h)

rule_dt_vbz(h, ws) ==
  RuleResult(move_tag_seq(h, ws, <<"DT", "VBZ">>, "end", 0), h)

\* w.text += 's'; w.tag = 'VBZ' for the Word at address a
inflect(h, a) == [h EXCEPT ![a] = [text |-> h[a].text \o <<"s">>, tag |-> "VBZ"]]

\* rule 5 substituting a newly constructed, inflected Word for the verb
rule_nnp_vbz_rb_vb_new_word(h, ws) ==
  (LET with_r(r) ==
    IF r.none THEN RuleResult(None, h)
    ELSE IF Len(r.val) < Len(ws)
      THEN (LET with_i(i) ==
             IF i + 1 >= Len(r.val) THEN RuleRaised(h)
             ELSE RuleResult(Some([r.val EXCEPT ![i + 2] = Len(h) + 1]),
                             Append(h, inflect(h, r.val[i + 2])[r.val[i + 2]]))
            IN with_i(index_tag_seq(h, r.val, <<"NNP", "VB", "RB">>)))
      ELSE RuleResult(r, h)
   IN with_r(replace_tag_seq(h, ws, <<"NNP", "VBZ", "RB", "VB">>, <<"NNP", "VB", "RB">>)))

\* words[i+1].text += 's'; words[i+1].tag = 'VBZ'  (i+1 >= 0 as i >= -1)
rule_nnp_vbz_rb_vb(h, ws) ==
  (LET with_r(r) ==
    IF r.none THEN RuleResult(None, h)
    ELSE IF Len(r.val) < Len(ws)
      THEN (LET with_i(i) ==
             IF i + 1 >= Len(r.val) THEN RuleRaised(h)
             ELSE RuleResult(r, inflect(h, r.val[i + 2]))
            IN with_i(index_tag_seq(h, r.val, <<"NNP", "VB", "RB">>)))
      ELSE RuleResult(r, h)
   IN with_r(replace_tag_seq(h, ws, <<"NNP", "VBZ", "RB", "VB">>, <<"NNP", "VB", "RB">>)))

rules(k, h, ws) ==
  CASE k = 1 -> rule_prp_vbp(h, ws)
    [] k = 2 -> rule_rb_jjr(h, ws)
    [] k = 3 -> rule_vb_prp_nn(h, ws)
    [] k = 4 -> rule_dt_vbz(h, ws)
    [] k = 5 -> rule_nnp_vbz_rb_vb(h, ws)

NumRules == 5

\* apply_rule: applied = r(inp); return (applied if applied else inp)
apply_rule(h, inp, k) ==
  (LET with_applied(applied) ==
    [raised |-> applied.raised,
     ret |-> applied.ret,
     heap |-> applied.heap,
     words |-> IF applied.raised \/ applied.ret.none \/ applied.ret.val = <<>>
                 THEN inp ELSE applied.ret.val]
   IN with_applied(rules(k, h, inp)))

\* functools.reduce(apply_rule, rules, clause), from rule k on
RECURSIVE reduce_rules(_, _, _)
reduce_rules(h, ws, k) ==
  IF k > NumRules THEN [raised |-> FALSE, heap |-> h, words |-> ws]
  ELSE (LET with_s(s) ==
         IF s.raised THEN [raised |-> TRUE, heap |-> s.heap, words |-> ws]
         ELSE reduce_rules(s.heap, s.words, k + 1)
        IN with_s(apply_rule(h, ws, k)))

apply_yodish_grammar(h, cl) == reduce_rules(h, cl, 1)

(***************************************************************************)
(* split_clauses: a token is [text, tag, dep].  Yields [raised, heap, out] *)
(* where out is the list of chunks (lists of addresses of new Words).      *)
(***************************************************************************)
save_to_output(output, chunk) ==
  IF chunk # <<>> THEN Append(output, chunk) ELSE output

\* the loop of split_clauses with curr not reset after a separator
RECURSIVE split_loop_no_reset(_, _, _, _, _)
split_loop_no_reset(h, sentence, i, output, curr) ==
  IF i > Len(sentence)
    THEN [raised |-> FALSE, heap |-> h, out |-> save_to_output(output, curr)]
  ELSE (LET with_w(w) ==
         LET token == sentence[i]
             h1 == Append(h, w.val)
             a == Len(h) + 1
         IN IF w.raised THEN [raised |-> TRUE, heap |-> h, out |-> output]
            ELSE IF token.dep = "cc"
                      \/ (token.dep = "punct" /\ token.text \in punctuation)
              THEN split_loop_no_reset(h1, sentence, i + 1,
                              save_to_output(save_to_output(output, curr), <<a>>),
                              curr)
              ELSE split_loop_no_reset(h1, sentence, i + 1, output, Append(curr, a))
        IN with_w(Word(sentence[i].text, sentence[i].tag)))

RECURSIVE split_loop(_, _, _, _, _)
split_loop(h, sentence, i, output, curr) ==
  IF i > Len(sentence)
    THEN [raised |-> FALSE, heap |-> h, out |-> save_to_output(output, curr)]
  ELSE (LET with_w(w) ==
         LET token == sentence[i]
             h1 == Append(h, w.val)
             a == Len(h) + 1
         IN IF w.raised THEN [raised |-> TRUE, heap |-> h, out |-> output]
            ELSE IF token.dep = "cc"
                      \/ (token.dep = "punct" /\ token.text \in punctuation)
              THEN split_loop(h1, sentence, i + 1,
                              save_to_output(save_to_output(output, curr), <<a>>),
                              <<>>)
              ELSE split_loop(h1, sentence, i + 1, output, Append(curr, a))
        IN with_w(Word(sentence[i].text, sentence[i].tag)))

split_clauses(h, sentence) == split_loop(h, sentence, 1, <<>>, <<>>)

(***************************************************************************)
(* flatten, for one sentence's chunks and for the whole text               *)
(***************************************************************************)
RECURSIVE concat(_)
concat(ss) == IF ss = <<>> THEN <<>> ELSE Head(ss) \o concat(Tail(ss))

flatten(text) == concat([j \in DOMAIN text |-> concat(text[j])])

(***************************************************************************)
(* serialize: yields the string, or IndexError (string[-1] of an empty     *)
(* list, or capitalize of an empty string).                                *)
(***************************************************************************)
\* " ".join(string)
RECURSIVE join(_)
join(string) ==
  IF string = <<>> THEN <<>>
  ELSE IF Len(string) = 1 THEN string[1]
  ELSE string[1] \o <<" ">> \o join(Tail(string))

RECURSIVE serialize_loop(_, _, _, _)
serialize_loop(h, ws, i, string) ==
  IF i >= Len(ws) THEN capitalize(join(string))
  ELSE LET word == h[ws[i + 1]]
           cap == capitalize(word.text)
       IN IF (i > 0 /\ word.text \in punctuation) \/ word.tag = "POS"
            THEN IF string = <<>> THEN IndexError
                 ELSE serialize_loop(h, ws, i + 1,
                        [string EXCEPT ![Len(string)] = @ \o word.text])
          ELSE IF i > 0 /\ h[ws[i]].text \in stop_punctuation
            THEN IF cap.raised THEN IndexError
                 ELSE serialize_loop(h, ws, i + 1, Append(string, cap.val))
          ELSE serialize_loop(h, ws, i + 1, Append(string, word.text))

serialize(h, ws) == serialize_loop(h, ws, 0, <<>>)

\* [apply_yodish_grammar(clause_chunk) for clause_chunk in <chunks>], from chunk j on
RECURSIVE grammar_all(_, _, _, _)
grammar_all(h, cs, j, done) ==
  IF j > Len(cs) THEN [raised |-> FALSE, heap |-> h, out |-> done]
  ELSE (LET with_g(g) ==
         IF g.raised THEN [raised |-> TRUE, heap |-> g.heap, out |-> done]
         ELSE grammar_all(g.heap, cs, j + 1, Append(done, g.words))
        IN with_g(apply_yodish_grammar(h, cs[j])))

(***************************************************************************)
(* Inputs.  The tagger hands over tokens [text, tag, dep] with a non-empty *)
(* text; a document is a list of sentences (possibly none).                *)
(***************************************************************************)
\* all sequences over S of length lo..hi
Seqs(S, lo, hi) == UNION {[1..m -> S] : m \in lo..hi}

Token(text, tag, dep) == [text |-> text, tag |-> tag, dep |-> dep]

\* a representative surface text for each tag
TagText(tag) ==
  CASE tag = "PRP" -> <<"y","o","u">>
    [] tag = "VBP" -> <<"a","r","e">>
    [] tag = "JJ" -> <<"c","o","n","f","l","i","c","t","e","d">>
    [] tag = "RB" -> <<"n","o","t">>
    [] tag = "JJR" -> <<"m","o","r","e">>
    [] tag = "VB" -> <<"m","a","t","t","e","r">>
    [] tag = "PRP$" -> <<"y","o","u","r">>
    [] tag = "NNS" -> <<"w","e","a","p","o","n","s">>
    [] tag = "DT" -> <<"t","h","i","s">>
    [] tag = "VBZ" -> <<"d","o","e","s">>
    [] tag = "NNP" -> <<"s","i","z","e">>
    [] tag = "NN" -> <<"h","o","m","e">>
    [] OTHER -> <<"x">>

TokensOf(tags) == [j \in DOMAIN tags |-> Token(TagText(tags[j]), tags[j], "dep")]

\* the heap after a Word has been constructed for each token, in order
HeapOf(tokens) == [j \in DOMAIN tokens |-> Word(tokens[j].text, tokens[j].tag).val]

Addresses(tokens) == [j \in DOMAIN tokens |-> j]

Elems(s) == {s[j] : j \in DOMAIN s}

Idle ==
  /\ n = 0
  /\ chunks = <<>>
  /\ result = <<>>
  /\ clause = <<>>
  /\ fired = {}
  /\ ret = None

(***************************************************************************)
(* Word construction on its own: Word(text, tag) for one token.            *)
(***************************************************************************)
TextAlphabet == {"i", "I", "'", "s", "S", "a"}

ContractionKeys == {contractions[i].key : i \in DOMAIN contractions}

Texts ==
  Seqs(TextAlphabet, 1, MaxTextLen)
    \cup ContractionKeys
    \cup {[j \in DOMAIN k |-> upper(k[j])] : k \in ContractionKeys}

WordTags == {"POS", "NNP", "NN", "PRP", "VBZ"}

InitWord ==
  /\ pc = "new"
  /\ \E text \in Texts, tag \in WordTags : sents = <<<<Token(text, tag, "dep")>>>>
  /\ heap = <<>>
  /\ words = <<>>
  /\ seq = <<>>
  /\ dest = "none"
  /\ punc = 0
  /\ Idle

NewWord ==
  /\ pc = "new"
  /\ \E w \in {Word(sents[1][1].text, sents[1][1].tag)} :
        IF w.raised
          THEN /\ pc' = "raised"
               /\ ret' = IndexError
               /\ UNCHANGED <<heap, words>>
          ELSE /\ pc' = "done"
               /\ heap' = Append(heap, w.val)
               /\ words' = <<Len(heap) + 1>>
               /\ ret' = Returned(Len(heap) + 1)
  /\ UNCHANGED <<sents, n, chunks, result, seq, dest, punc, clause, fired>>

NextWord == NewWord

SpecWord == InitWord /\ [][NextWord]_vars

(***************************************************************************)
(* The matcher on its own: index_tag_seq(words, seq).                      *)
(***************************************************************************)
LocTags == {"NN", "NNS", "NNP", "VBZ", "DT"}

InitLocate ==
  /\ pc = "locate"
  /\ \E tags \in Seqs(LocTags, 0, MaxWords) :
       /\ sents = <<TokensOf(tags)>>
       /\ heap = HeapOf(TokensOf(tags))
       /\ words = Addresses(tags)
  /\ seq \in Seqs(LocTags, 1, MaxPat)
  /\ dest = "none"
  /\ punc = 0
  /\ Idle

Locate ==
  /\ pc = "locate"
  /\ pc' = "done"
  /\ ret' = Returned(index_tag_seq(heap, words, seq))
  /\ UNCHANGED <<heap, sents, n, chunks, result, words, seq, dest, punc, clause, fired>>

NextLocate == Locate

SpecLocate == InitLocate /\ [][NextLocate]_vars

(***************************************************************************)
(* move_tag_seq on its own: move_tag_seq(words, seq, dest, punc).          *)
(***************************************************************************)
MoveTags == {"PRP", "VBP", "JJ", "NN"}

InitMove ==
  /\ pc = "move"
  /\ \E tags \in Seqs(MoveTags, 0, MaxWords), p \in BOOLEAN :
       /\ sents = <<TokensOf(tags)>>
       /\ heap = IF p THEN Append(HeapOf(TokensOf(tags)), Word(<<",">>, "punct").val)
                      ELSE HeapOf(TokensOf(tags))
       /\ words = Addresses(tags)
       /\ punc = IF p THEN Len(tags) + 1 ELSE 0
  /\ seq \in Seqs(MoveTags, 1, MaxPat)
  /\ dest \in {"start", "end"}
  /\ Idle

Move ==
  /\ pc = "move"
  /\ pc' = "done"
  /\ ret' = move_tag_seq(heap, words, seq, dest, punc)
  /\ UNCHANGED <<heap, sents, n, chunks, result, words, seq, dest, punc, clause, fired>>

NextMove == Move

SpecMove == InitMove /\ [][NextMove]_vars

(***************************************************************************)
(* apply_yodish_grammar on one clause chunk, one rule per step: the state  *)
(* after split_clauses has built the chunk's Words; n is the rule to       *)
(* apply, words the accumulator of the reduce, clause its initial value,   *)
(* ret what the last rule returned.                                        *)
(***************************************************************************)
Segments ==
  { <<"PRP", "VBP">>, <<"RB", "JJR">>, <<"VB", "PRP$", "NNS">>, <<"RB">>,
    <<"DT", "VBZ">>, <<"NNP", "VBZ", "RB", "VB">>, <<"NN", "VBZ", "RB", "VB">>,
    <<"NN", "VB", "RB">>, <<"JJ">>, <<"NNP">> }

InitRules ==
  /\ pc = "rule"
  /\ n = 1
  /\ \E segs \in Seqs(Segments, 0, MaxSegs) :
       LET tags == concat(segs)
       IN /\ sents = <<TokensOf(tags)>>
          /\ heap = HeapOf(TokensOf(tags))
          /\ clause = Addresses(tags)
          /\ words = Addresses(tags)
  /\ chunks = <<>>
  /\ result = <<>>
  /\ seq = <<>>
  /\ dest = "none"
  /\ punc = 0
  /\ fired = {}
  /\ ret = None

ApplyRule ==
  /\ pc = "rule"
  /\ \E s \in {apply_rule(heap, words, n)} :
        IF s.raised
          THEN /\ pc' = "raised"
               /\ UNCHANGED <<heap, words, ret, fired, n>>
          ELSE /\ pc' = IF n = NumRules THEN "done" ELSE "rule"
               /\ n' = n + 1
               /\ heap' = s.heap
               /\ words' = s.words
               /\ ret' = s.ret
               /\ fired' = IF s.ret.none THEN fired ELSE fired \cup {n}
  /\ UNCHANGED <<sents, chunks, result, seq, dest, punc, clause>>

NextRules == ApplyRule

SpecRules == InitRules /\ [][NextRules]_vars

(***************************************************************************)
(* translate_sents: for each sentence split_clauses, then the grammar on   *)
(* each of its chunks; then serialize(flatten(result)).  n is the sentence *)
(* the comprehension is at, chunks what split_clauses returned for it,     *)
(* result the list built so far, words the flattened list, ret the value   *)
(* returned (or the exception raised).                                     *)
(***************************************************************************)
SentTokens ==
  { Token(<<"h","e","l","l","o">>, "UH", "intj"),
    Token(<<",">>, ",", "punct"),
    Token(<<".">>, ".", "punct"),
    Token(<<"'","s">>, "POS", "case"),
    Token(<<"a","n","d">>, "CC", "cc"),
    Token(<<"-">>, "HYPH", "punct") }

EndOfSentence == Token(<<>>, "", "eos")

\* the sentences of a token stream in which EndOfSentence closes a sentence
RECURSIVE Sentences(_, _, _)
Sentences(stream, i, cur) ==
  IF i > Len(stream) THEN (IF cur = <<>> THEN <<>> ELSE <<cur>>)
  ELSE IF stream[i] = EndOfSentence
    THEN <<cur>> \o Sentences(stream, i + 1, <<>>)
    ELSE Sentences(stream, i + 1, Append(cur, stream[i]))

InitSents ==
  /\ pc = "loop"
  /\ n = 1
  /\ \E stream \in Seqs(SentTokens \cup {EndOfSentence}, 0, MaxToks) :
       sents = Sentences(stream, 1, <<>>)
  /\ heap = <<>>
  /\ chunks = <<>>
  /\ result = <<>>
  /\ words = <<>>
  /\ seq = <<>>
  /\ dest = "none"
  /\ punc = 0
  /\ clause = <<>>
  /\ fired = {}
  /\ ret = Returned(<<>>)

SplitClauses ==
  /\ pc = "loop"
  /\ n <= Len(sents)
  /\ \E r \in {split_clauses(heap, sents[n])} :
        IF r.raised
          THEN /\ pc' = "raised"
               /\ ret' = IndexError
               /\ UNCHANGED <<heap, chunks>>
          ELSE /\ pc' = "grammar"
               /\ heap' = r.heap
               /\ chunks' = r.out
               /\ ret' = ret
  /\ UNCHANGED <<sents, n, result, words, seq, dest, punc, clause, fired>>

Grammar ==
  /\ pc = "grammar"
  /\ \E g \in {grammar_all(heap, chunks, 1, <<>>)} :
        IF g.raised
          THEN /\ pc' = "raised"
               /\ ret' = IndexError
               /\ UNCHANGED <<heap, result, n>>
          ELSE /\ pc' = "loop"
               /\ heap' = g.heap
               /\ result' = Append(result, g.out)
               /\ n' = n + 1
               /\ ret' = ret
  /\ UNCHANGED <<sents, chunks, words, seq, dest, punc, clause, fired>>

Serialize ==
  /\ pc = "loop"
  /\ n > Len(sents)
  /\ words' = flatten(result)
  /\ \E r \in {serialize(heap, flatten(result))} :
       /\ ret' = r
       /\ pc' = IF r.raised THEN "raised" ELSE "done"
  /\ UNCHANGED <<heap, sents, n, chunks, result, seq, dest, punc, clause, fired>>

NextSents == SplitClauses \/ Grammar \/ Serialize

SpecSents == InitSents /\ [][NextSents]_vars

(***************************************************************************)
(* What "the matcher locates the pattern at index i" means, stated on the  *)
(* tags and independently of the scan.                                     *)
(***************************************************************************)
CanonTag(t) == IF t = "NN" \/ t = "NNS" \/ t = "NNP" THEN "noun" ELSE t

MatchesAt(h, ws, pat, i) ==
  /\ i >= 0
  /\ i + Len(pat) <= Len(ws)
  /\ \A j \in 1..Len(pat) : CanonTag(h[ws[i + j]].tag) = CanonTag(pat[j])

Present(h, ws, pat) == \E i \in 0..(Len(ws) - 1) : MatchesAt(h, ws, pat, i)

Lowest(h, ws, pat) ==
  CHOOSE i \in 0..(Len(ws) - 1) :
    MatchesAt(h, ws, pat, i) /\ \A i2 \in 0..(i - 1) : ~MatchesAt(h, ws, pat, i2)

TagsOf(h, ws) == [j \in DOMAIN ws |-> h[ws[j]].tag]

TextsOf(h, ws) == [j \in DOMAIN ws |-> h[ws[j]].text]

(***************************************************************************)
(* C7: Word(text, tag) stores the tag unchanged, and its text is the       *)
(* lowercased input, replaced by its expansion when it is a contraction    *)
(* suffix and the tag is not POS, then with an upper-case first character  *)
(* when the text is "i" or the tag is NNP.  Checked under SpecWord.        *)
(***************************************************************************)
ExpansionOf(low) ==
  CASE low = <<"'","l","l">> -> <<"w","i","l","l">>
    [] low = <<"'","d">> -> <<"w","o","u","l","d">>
    [] low = <<"'","v","e">> -> <<"h","a","v","e">>
    [] low = <<"'","r","e">> -> <<"a","r","e">>
    [] low = <<"n","'","t">> -> <<"n","o","t">>
    [] low = <<"'","s">> -> <<"i","s">>
    [] low = <<"'","m">> -> <<"a","m">>
    [] OTHER -> low

C7_WordConstruction ==
  pc # "new" =>
    /\ pc = "done"
    /\ LET tok == sents[1][1]
           low == lower(tok.text)
           exp == IF tok.tag # "POS" THEN ExpansionOf(low) ELSE low
           w == heap[ret.val]
       IN /\ w.tag = tok.tag
          /\ Len(w.text) = Len(exp)
          /\ \A j \in 2..Len(exp) : w.text[j] = exp[j]
          /\ w.text[1] = IF exp = <<"i">> \/ tok.tag = "NNP"
                           THEN upper(exp[1]) ELSE exp[1]

C7_Witness ==
  /\ pc = "done"
  /\ sents[1][1].text = <<"'","S">>
  /\ sents[1][1].tag = "NNP"
  /\ heap[ret.val] = [text |-> <<"I","s">>, tag |-> "NNP"]

(***************************************************************************)
(* C1: index_tag_seq returns the lowest index at which the pattern matches *)
(* after noun normalization of both sides, and -1 exactly when there is no *)
(* such index, in particular when the pattern is longer than the list.     *)
(* Checked under SpecLocate.                                               *)
(***************************************************************************)
C1_Locate ==
  pc = "done" =>
    /\ ~ret.raised
    /\ (ret.val = -1) <=> ~Present(heap, words, seq)
    /\ Present(heap, words, seq) => ret.val = Lowest(heap, words, seq)
    /\ Len(seq) > Len(words) => ret.val = -1

C1_Witness ==
  /\ pc = "done"
  /\ TagsOf(heap, words) = <<"NNS", "DT", "NNS">>
  /\ seq = <<"DT", "NNP">>
  /\ ret.val = 1

(***************************************************************************)
(* C2: move_tag_seq returns None when the pattern is absent (the list is   *)
(* untouched); located at k, the result is run + rest + punc for 'start'   *)
(* and rest + punc + run for 'end', the run and the rest in their original *)
(* order, punc only when supplied.  Checked under SpecMove.                *)
(***************************************************************************)
C2_Move ==
  pc = "done" =>
    /\ words = Addresses(sents[1])
    /\ \A j \in DOMAIN sents[1] : heap[j] = Word(sents[1][j].text, sents[1][j].tag).val
    /\ IF ~Present(heap, words, seq) THEN ret = None
       ELSE LET k == Lowest(heap, words, seq)
                m == Len(seq)
                L == Len(words)
                p == IF punc # 0 THEN 1 ELSE 0
                r == ret.val
            IN /\ ~ret.none
               /\ Len(r) = L + p
               /\ dest = "start" =>
                    /\ \A j \in 1..m : r[j] = words[k + j]
                    /\ \A j \in 1..k : r[m + j] = words[j]
                    /\ \A j \in (k + m + 1)..L : r[j] = words[j]
                    /\ p = 1 => r[L + 1] = punc
               /\ dest = "end" =>
                    /\ \A j \in 1..k : r[j] = words[j]
                    /\ \A j \in (k + m + 1)..L : r[j - m] = words[j]
                    /\ p = 1 => r[L - m + 1] = punc
                    /\ \A j \in 1..m : r[L - m + p + j] = words[k + j]

C2_Witness ==
  /\ pc = "done"
  /\ TagsOf(heap, words) = <<"PRP", "VBP", "JJ">>
  /\ seq = <<"PRP", "VBP">>
  /\ dest = "end"
  /\ punc # 0
  /\ ~ret.none
  /\ TextsOf(heap, ret.val)
       = << <<"c","o","n","f","l","i","c","t","e","d">>, <<",">>,
            <<"y","o","u">>, <<"a","r","e">> >>

(***************************************************************************)
(* C3: when the matcher locates NNP VBZ RB VB in rule 5's input, the       *)
(* result is prefix, subject, the window's verb with 's' appended and tag  *)
(* VBZ, negator, suffix; only the auxiliary is dropped and no other Word   *)
(* is touched.  The statement of the claim; checked under SpecRules.       *)
(***************************************************************************)
Window5 == <<"NNP", "VBZ", "RB", "VB">>

Inflected(w) == [text |-> w.text \o <<"s">>, tag |-> "VBZ"]

C3_Rule5KeepsSubjectInflectsVerb ==
  [][(pc = "rule" /\ n = 5 /\ Present(heap, words, Window5)) =>
       LET k == Lowest(heap, words, Window5)
           subject == words[k + 1]
           negator == words[k + 3]
           verb == words[k + 4]
       IN /\ pc' = "done"
          /\ ~ret'.none
          /\ words' = Slice(words, 0, k) \o <<subject, verb, negator>>
                        \o SliceFrom(words, k + 4)
          /\ heap'[verb] = Inflected(heap[verb])
          /\ \A a \in Elems(words) \ {verb} : heap'[a] = heap[a]]_vars

(***************************************************************************)
(* C8: rule 3 changes the chunk only if VB PRP$ NNS RB is present, and     *)
(* then the three Words moved to the end are the first three of that       *)
(* located window; otherwise it reports no change.  The statement of the   *)
(* claim; checked under SpecRules.                                         *)
(***************************************************************************)
Window3 == <<"VB", "PRP$", "NNS", "RB">>

C8_Rule3MovesGatedWindow ==
  [][(pc = "rule" /\ n = 3) =>
       IF Present(heap, words, Window3)
         THEN LET k == Lowest(heap, words, Window3)
              IN /\ ~ret'.none
                 /\ words' = Slice(words, 0, k) \o SliceFrom(words, k + 3)
                               \o Slice(words, k, k + 3)
         ELSE /\ ret'.none
              /\ words' = words]_vars

(***************************************************************************)
(* C9, as stated: no Word of rule 5's input has another text or tag after  *)
(* the call, and the input list is as before.  Checked under SpecRules.    *)
(***************************************************************************)
C9_InputWordsUntouched ==
  [][(pc = "rule" /\ n = 5) =>
       /\ clause' = clause
       /\ \A a \in Elems(words) : heap'[a] = heap[a]]_vars

(***************************************************************************)
(* C9, amended: rule 5 creates no Word.  When it reports no change every   *)
(* Word is as before; when it fires, exactly one Word is mutated ('s'      *)
(* appended, tag VBZ), and that Word is an element of the rule's input     *)
(* chunk as well as of the result.  The input list itself is as before.    *)
(***************************************************************************)
C9_Rule5MutatesOneInputWord ==
  [][(pc = "rule" /\ n = 5) =>
       /\ clause' = clause
       /\ Len(heap') = Len(heap)
       /\ ret'.none => heap' = heap
       /\ ~ret'.none =>
            \E a \in Elems(words) \cap Elems(ret'.val) :
              /\ heap'[a] = Inflected(heap[a])
              /\ \A b \in DOMAIN heap \ {a} : heap'[b] = heap[b]]_vars

C9_Witness ==
  /\ pc = "done"
  /\ 5 \in fired
  /\ \E a \in Elems(clause) \cap Elems(words) :
       /\ heap[a].tag = "VBZ"
       /\ sents[1][a].tag = "VB"
       /\ heap[a].text = sents[1][a].text \o <<"s">>

(***************************************************************************)
(* C10: after the five rules, applied in order, every Word of the input    *)
(* chunk occurs at most once in the result, every Word of the result is an *)
(* input Word or the one comma rule 1 inserted, and an input Word is       *)
(* missing only if rule 5 fired; a rule that reports no change hands the   *)
(* chunk on unchanged.  Checked under SpecRules.                           *)
(***************************************************************************)
CommaWord == [text |-> <<",">>, tag |-> "punct"]

Occurrences(s, a) == Cardinality({j \in DOMAIN s : s[j] = a})

Conserved ==
  /\ \A a \in Elems(clause) : Occurrences(words, a) <= 1
  /\ \A a \in Elems(words) \ Elems(clause) :
       /\ heap[a] = CommaWord
       /\ a > Len(clause)
       /\ 1 \in fired
  /\ Cardinality({j \in DOMAIN words : words[j] \notin Elems(clause)}) <= 1
  /\ (Elems(clause) \ Elems(words) # {}) => 5 \in fired

C10_PipelineConserves ==
  [][pc = "rule" =>
       /\ n' = n + 1
       /\ ret'.none => words' = words
       /\ pc' = "done" => (n = NumRules /\ Conserved')]_vars

C10_Witness ==
  /\ pc = "done"
  /\ fired = {1, 5}
  /\ Len(words) = Len(clause)
  /\ Elems(clause) \ Elems(words) # {}
  /\ Elems(words) \ Elems(clause) # {}

(***************************************************************************)
(* C4: the chunks split_clauses returns for a sentence, concatenated, are  *)
(* one new Word per token in token order (none dropped or duplicated); no  *)
(* chunk is empty; every separator token (dep cc, or dep punct with text   *)
(* in , . ; ? ! :) is a chunk of length 1; an empty sentence gives no      *)
(* chunk and a sentence without separators a single one.                   *)
(* Checked under SpecSents, in the state right after split_clauses.        *)
(***************************************************************************)
IsSeparator(token) ==
  \/ token.dep = "cc"
  \/ token.dep = "punct" /\ token.text \in {<<",">>, <<".">>, <<";">>, <<"?">>, <<"!">>, <<":">>}

C4_SplitCovers ==
  pc = "grammar" =>
    LET sentence == sents[n]
        flat == concat(chunks)
        base == Len(heap) - Len(sentence)
    IN /\ Len(flat) = Len(sentence)
       /\ \A j \in DOMAIN flat :
            /\ flat[j] = base + j
            /\ heap[flat[j]] = Word(sentence[j].text, sentence[j].tag).val
       /\ \A c \in DOMAIN chunks : chunks[c] # <<>>
       /\ \A j \in DOMAIN sentence :
            IsSeparator(sentence[j]) => \E c \in DOMAIN chunks : chunks[c] = <<base + j>>
       /\ sentence = <<>> => chunks = <<>>
       /\ (sentence # <<>> /\ \A j \in DOMAIN sentence : ~IsSeparator(sentence[j]))
            => Len(chunks) = 1

C4_Witness ==
  /\ pc = "grammar"
  /\ [j \in DOMAIN sents[n] |-> sents[n][j].dep] = <<"intj", "punct", "intj", "cc">>
  /\ sents[n][2].text = <<",">>
  /\ Len(chunks) = 4
  /\ Len(chunks[1]) = 1

(***************************************************************************)
(* C5: translate_sents never raises: for every list of sentences it        *)
(* returns a string, and the empty string when there is no sentence or     *)
(* only empty ones.  The statement of the claim; checked under SpecSents.  *)
(***************************************************************************)
C5_NeverRaises ==
  /\ pc # "raised"
  /\ (pc = "done" /\ \A j \in DOMAIN sents : sents[j] = <<>>) => ret = Returned(<<>>)

(***************************************************************************)
(* C6: the string serialize returns is the Words' texts in order, with no  *)
(* space before a Word whose text is one of , . ; ? ! : or whose tag is    *)
(* POS, one space before every other Word but the first, an upper-case     *)
(* first letter on every Word that follows a Word whose text is . ! or ?,  *)
(* and on the first Word.  The statement of the claim, for every flattened *)
(* word list; checked under SpecSents.                                     *)
(***************************************************************************)
Glued(h, ws, j) ==
  \/ h[ws[j]].text \in {<<",">>, <<".">>, <<";">>, <<"?">>, <<"!">>, <<":">>}
  \/ h[ws[j]].tag = "POS"

AfterStop(h, ws, j) == j > 1 /\ h[ws[j - 1]].text \in {<<".">>, <<"!">>, <<"?">>}

UpperFirst(t) == IF t = <<>> THEN t ELSE [j \in DOMAIN t |-> IF j = 1 THEN upper(t[j]) ELSE t[j]]

Piece(h, ws, j) ==
  (IF j = 1 \/ Glued(h, ws, j) THEN <<>> ELSE <<" ">>)
    \o (IF j = 1 \/ AfterStop(h, ws, j) THEN UpperFirst(h[ws[j]].text) ELSE h[ws[j]].text)

Formatted(h, ws) == concat([j \in DOMAIN ws |-> Piece(h, ws, j)])

C6_SerializeFormat ==
  pc \in {"done", "raised"} => ret = Returned(Formatted(heap, words))

\* the same format, wherever serialize returns
SerializeFormatWhenReturned ==
  pc = "done" => ret = Returned(Formatted(heap, words))

====
